---- MODULE Spec2Model ----
(***************************************************************************)
(* Match result accrual and rollback of src/main.py: the match ledger      *)
(* (db.matches), the team documents with their embedded per-team player    *)
(* sub-records (db.teams) and the global player documents (db.players),    *)
(* driven by record_match, delete_match, update_match, delete_team and     *)
(* delete_player.  Every await on the store is one atomic step; a handler  *)
(* is the sequence of its steps.                                           *)
(***************************************************************************)
EXTENDS Integers, Sequences, FiniteSets, TLC

VARIABLES matches, teams, players, nextId, procs, last, snap, rolled, hist, overlapped, budget

vars == <<matches, teams, players, nextId, procs, last, snap, rolled, hist, overlapped, budget>>

(***************************************************************************)
(* Bounds of the model.                                                    *)
(***************************************************************************)
\* ledger identifiers the store mints
MaxMatches == 2
\* player_results entries submitted over a whole run
MaxEntries == 3
\* record_match / update_match requests submitted over a whole run
MaxRequests == 2
\* handler calls started over a run of concurrent handlers
MaxCalls == 3
\* how many matches below zero a team's matches_played may be when a
\* delete_match is still submitted
MaxDebt == 1
\* store calls that raise over a whole run
MaxFailures == 1

(***************************************************************************)
(* Identifiers.  A request carries identifiers as strings; the store keys  *)
(* documents by ObjectId.  A positive number n stands for the canonical    *)
(* (lower-case hex) string of the ObjectId n, n + AltSpelling for another  *)
(* spelling of the same ObjectId (upper-case hex), UnknownId for a         *)
(* well-formed string that identifies no document, BadId for a string      *)
(* that is not a well-formed object id.                                    *)
(***************************************************************************)
UnknownId == 0
BadId == -1
AltSpelling == 10

\* ObjectId.is_valid(s)
IsValid(s) == s # BadId

\* ObjectId(s) for a well-formed s: the spelling is dropped
ObjectId(s) == IF s > AltSpelling THEN s - AltSpelling ELSE s

PlayerIds == {1, 2}
TeamIds == {1, 2}
TournamentIds == {1}
MatchIds == 1..MaxMatches

Results == {"win", "loss", "draw", "sub"}

\* find_one found nothing / the document does not exist
NoDoc == [exists |-> FALSE]

ZeroStats == [matches_played |-> 0, wins |-> 0, draws |-> 0, loss |-> 0]
ZeroTeamStats == [matches_played |-> 0, wins |-> 0, draws |-> 0, loss |-> 0, points |-> 0]

\* add_team: one embedded sub-record per listed player, counters at zero
Roster(pids) == [i \in 1..Len(pids) |-> [player_id |-> pids[i], stats |-> ZeroStats]]

\* add_team: the team document
NewTeam(tournament_id, pids) ==
    [tournament_id |-> tournament_id, stats |-> ZeroTeamStats, players |-> Roster(pids)]

(***************************************************************************)
(* The store: $inc on one document, atomic per call.  A filter that        *)
(* matches no document changes nothing (update_one without upsert).        *)
(***************************************************************************)
\* $inc of the named counters; a counter the update does not name is inc.f = 0
Inc(stats, inc) == [f \in DOMAIN stats |-> stats[f] + inc[f]]

\* IncPlayer that never takes a counter below zero
IncPlayer_Clamped(P, oid, inc) ==
    IF oid \in DOMAIN P /\ P[oid] # NoDoc
    THEN [P EXCEPT ![oid] = [f \in DOMAIN @ |-> IF @[f] + inc[f] < 0 THEN 0 ELSE @[f] + inc[f]]]
    ELSE P

\* collection.update_one({"_id": oid}, {"$inc": inc})
IncPlayer(P, oid, inc) ==
    IF oid \in DOMAIN P /\ P[oid] # NoDoc
    THEN [P EXCEPT ![oid] = Inc(@, inc)]
    ELSE P

\* IncTeam with "$set" for "$inc": the counters the update names are
\* overwritten with the amounts
IncTeam_Set(T, oid, inc) ==
    IF oid \in DOMAIN T /\ T[oid] # NoDoc
    THEN [T EXCEPT ![oid].stats =
            [f \in DOMAIN @ |-> IF inc[f] # 0 THEN inc[f] ELSE @[f]]]
    ELSE T

\* teams_collection.update_one({"_id": oid}, {"$inc": {"stats.*": ...}})
IncTeam(T, oid, inc) ==
    IF oid \in DOMAIN T /\ T[oid] # NoDoc
    THEN [T EXCEPT ![oid].stats = Inc(@, inc)]
    ELSE T

\* the positional operator $: the first roster element whose player_id is pid
FirstPos(roster, pid) ==
    LET hits == {i \in 1..Len(roster) : roster[i].player_id = pid}
    IN IF hits = {} THEN 0 ELSE CHOOSE i \in hits : \A j \in hits : i <= j

\* teams_collection.update_one({"_id": oid, "players.player_id": pid},
\*                             {"$inc": {"players.$.stats.*": ...}})
IncSubRecord(T, oid, pid, inc) ==
    IF oid \in DOMAIN T /\ T[oid] # NoDoc /\ FirstPos(T[oid].players, pid) # 0
    THEN [T EXCEPT ![oid].players[FirstPos(T[oid].players, pid)].stats = Inc(@, inc)]
    ELSE T

(***************************************************************************)
(* record_match: the team outcome and the increments it issues.            *)
(***************************************************************************)
RECURSIVE CountResult(_, _)
\* the counting loop over player_results: how many entries carry result r
CountResult(prs, r) ==
    IF prs = <<>> THEN 0
    ELSE (IF Head(prs).result = r THEN 1 ELSE 0) + CountResult(Tail(prs), r)

\* team_result with the tie counted as a win (>= for >)
team_result_TieWins(prs) ==
    LET match_wins == CountResult(prs, "win")
        match_losses == CountResult(prs, "loss")
    IN IF match_wins >= match_losses THEN "win"
       ELSE IF match_losses > match_wins THEN "loss"
       ELSE "draw"

\* record_match, step A: team_result
team_result(prs) ==
    LET match_wins == CountResult(prs, "win")
        match_losses == CountResult(prs, "loss")
    IN IF match_wins > match_losses THEN "win"
       ELSE IF match_losses > match_wins THEN "loss"
       ELSE "draw"

\* record_match, step A: points_awarded
points_awarded(prs) ==
    LET match_wins == CountResult(prs, "win")
        match_losses == CountResult(prs, "loss")
    IN IF match_wins > match_losses THEN 3
       ELSE IF match_losses > match_wins THEN 0
       ELSE 1

\* record_match, step B: match.dict() plus the derived result
match_doc(x) ==
    [tournament_id |-> x.tournament_id, team_id |-> x.team_id,
     opponent_name |-> x.opponent_name, player_results |-> x.player_results,
     calculated_team_result |-> team_result(x.player_results)]

\* team_update_fields whose win counts two points
team_update_fields_TwoPoints(tr, pts) ==
    [matches_played |-> 1, points |-> IF tr = "win" THEN 2 ELSE pts,
     wins |-> IF tr = "win" THEN 1 ELSE 0,
     loss |-> IF tr = "loss" THEN 1 ELSE 0,
     draws |-> IF tr # "win" /\ tr # "loss" THEN 1 ELSE 0]

\* record_match, step C: the team's $inc document
team_update_fields(tr, pts) ==
    [matches_played |-> 1, points |-> pts,
     wins |-> IF tr = "win" THEN 1 ELSE 0,
     loss |-> IF tr = "loss" THEN 1 ELSE 0,
     draws |-> IF tr # "win" /\ tr # "loss" THEN 1 ELSE 0]

\* record_match, step D: the global player's $inc document
global_inc(res) ==
    [matches_played |-> 1,
     wins |-> IF res = "win" THEN 1 ELSE 0,
     loss |-> IF res = "loss" THEN 1 ELSE 0,
     draws |-> IF res = "draw" THEN 1 ELSE 0]

\* record_match, step D: the per-team sub-record's $inc document
tourney_inc(res) ==
    [matches_played |-> 1,
     wins |-> IF res = "win" THEN 1 ELSE 0,
     loss |-> IF res = "loss" THEN 1 ELSE 0,
     draws |-> IF res = "draw" THEN 1 ELSE 0]

(***************************************************************************)
(* update_match repeats record_match's logic in its own copy of the code.  *)
(***************************************************************************)
\* update_match, step 4: team_result
upd_team_result(prs) ==
    LET match_wins == CountResult(prs, "win")
        match_losses == CountResult(prs, "loss")
    IN IF match_wins > match_losses THEN "win"
       ELSE IF match_losses > match_wins THEN "loss"
       ELSE "draw"

\* update_match, step 4: points_awarded
upd_points_awarded(prs) ==
    LET match_wins == CountResult(prs, "win")
        match_losses == CountResult(prs, "loss")
    IN IF match_wins > match_losses THEN 3
       ELSE IF match_losses > match_wins THEN 0
       ELSE 1

\* update_match, step 4: match.dict() plus the derived result (the _id is the old one)
upd_match_doc(x) ==
    [tournament_id |-> x.tournament_id, team_id |-> x.team_id,
     opponent_name |-> x.opponent_name, player_results |-> x.player_results,
     calculated_team_result |-> upd_team_result(x.player_results)]

\* update_match: the team's $inc document
upd_team_update_fields(tr, pts) ==
    [matches_played |-> 1, points |-> pts,
     wins |-> IF tr = "win" THEN 1 ELSE 0,
     loss |-> IF tr = "loss" THEN 1 ELSE 0,
     draws |-> IF tr # "win" /\ tr # "loss" THEN 1 ELSE 0]

\* update_match: the global player's $inc document
upd_global_inc(res) ==
    [matches_played |-> 1,
     wins |-> IF res = "win" THEN 1 ELSE 0,
     loss |-> IF res = "loss" THEN 1 ELSE 0,
     draws |-> IF res = "draw" THEN 1 ELSE 0]

\* upd_tourney_inc with the draw counted under wins
upd_tourney_inc_DrawAsWin(res) ==
    [matches_played |-> 1,
     wins |-> IF res = "win" \/ res = "draw" THEN 1 ELSE 0,
     loss |-> IF res = "loss" THEN 1 ELSE 0,
     draws |-> 0]

\* update_match: the per-team sub-record's $inc document
upd_tourney_inc(res) ==
    [matches_played |-> 1,
     wins |-> IF res = "win" THEN 1 ELSE 0,
     loss |-> IF res = "loss" THEN 1 ELSE 0,
     draws |-> IF res = "draw" THEN 1 ELSE 0]

(***************************************************************************)
(* rollback_match_stats: the decrements, from the stored ledger entry.     *)
(***************************************************************************)
\* team_inc whose draw branch takes the point and leaves stats.draws
team_inc_DrawsKept(tr) ==
    [matches_played |-> -1,
     wins |-> IF tr = "win" THEN -1 ELSE 0,
     loss |-> IF tr = "loss" THEN -1 ELSE 0,
     draws |-> 0,
     points |-> IF tr = "win" THEN -3 ELSE IF tr = "loss" THEN 0 ELSE -1]

\* rollback_match_stats, step 1: the team's $inc document
team_inc(tr) ==
    [matches_played |-> -1,
     wins |-> IF tr = "win" THEN -1 ELSE 0,
     loss |-> IF tr = "loss" THEN -1 ELSE 0,
     draws |-> IF tr # "win" /\ tr # "loss" THEN -1 ELSE 0,
     points |-> IF tr = "win" THEN -3 ELSE IF tr = "loss" THEN 0 ELSE -1]

\* g_inc that takes a win back for every result
g_inc_AlwaysWin(res) ==
    [matches_played |-> -1, wins |-> -1, loss |-> 0, draws |-> 0]

\* rollback_match_stats, step 2: the global player's $inc document
g_inc(res) ==
    [matches_played |-> -1,
     wins |-> IF res = "win" THEN -1 ELSE 0,
     loss |-> IF res = "loss" THEN -1 ELSE 0,
     draws |-> IF res = "draw" THEN -1 ELSE 0]

\* rollback_match_stats, step 2: the per-team sub-record's $inc document
t_inc(res) ==
    [matches_played |-> -1,
     wins |-> IF res = "win" THEN -1 ELSE 0,
     loss |-> IF res = "loss" THEN -1 ELSE 0,
     draws |-> IF res = "draw" THEN -1 ELSE 0]

(***************************************************************************)
(* A handler in progress.  pc names the store call the handler awaits      *)
(* next; the code between two awaits touches no shared state and runs with *)
(* the call before it.  status is the HTTP status once the handler has     *)
(* ended: 200, 400 and 404 (HTTPException), 500 (an exception the handler  *)
(* does not catch: bson InvalidId, DuplicateKeyError), body the response   *)
(* body of a handler that returned, exc the store call that raised in a    *)
(* handler the store failed.                                               *)
(***************************************************************************)
Idle == [op |-> "none", pc |-> "idle", id |-> UnknownId, x |-> NoDoc, doc |-> NoDoc,
         i |-> 0, status |-> 0, body |-> NoDoc, exc |-> "none"]

Ended(p, code) == [p EXCEPT !.pc = "done", !.status = code]

Running(p) == p.pc \notin {"idle", "done"}

\* `return body`: the handler ends with status 200 and the body as its response
Returned(p, body) == [Ended(p, 200) EXCEPT !.body = body]

\* what record_match, delete_match and update_match return
record_return(tr) == [message |-> "Match recorded", team_result |-> tr]

delete_return == [message |-> "Match deleted and stats rolled back"]

update_return == [message |-> "Match updated successfully"]

\* the loop without its `continue`: a sub is treated as a player who played
NextNonSub_NoSkip(prs, i) == i

\* `for p in player_results: ... if res == "sub": continue`: the next entry
\* at or after position i that is not a sub, Len + 1 when there is none
RECURSIVE NextNonSub(_, _)
NextNonSub(prs, i) ==
    IF i > Len(prs) THEN i
    ELSE IF prs[i].result = "sub" THEN NextNonSub(prs, i + 1)
    ELSE i

\* LoopAt with the check add_team makes of its player_ids: an id that names
\* no player ends the handler with an HTTPException
LoopAt_RejectUnknown(p, prs, j, pcGlobal, after) ==
    IF j > Len(prs) THEN after
    ELSE IF ~IsValid(prs[j].player_id) THEN Ended(p, 500)
    ELSE IF prs[j].player_id = UnknownId THEN Ended(p, 400)
    ELSE [p EXCEPT !.pc = pcGlobal, !.i = j]

\* The player loop reaching position j: past the end the loop is over and the
\* handler goes on with `after`; ObjectId(pid) of a malformed pid raises
\* InvalidId; otherwise the global player's update is awaited.
LoopAt(p, prs, j, pcGlobal, after) ==
    IF j > Len(prs) THEN after
    ELSE IF ~IsValid(prs[j].player_id) THEN Ended(p, 500)
    ELSE [p EXCEPT !.pc = pcGlobal, !.i = j]

\* The team update is next: ObjectId(team_id) of a malformed team_id raises
TeamNext(p, team_id, pcTeam) ==
    IF ~IsValid(team_id) THEN Ended(p, 500) ELSE [p EXCEPT !.pc = pcTeam]

\* matches_collection.find_one({"_id": oid})
FindMatch(M, oid) == IF oid \in DOMAIN M THEN M[oid] ELSE NoDoc

\* record_match, from the request to its first await (insert_one)
StartRecord(x) == [Idle EXCEPT !.op = "record", !.pc = "insert", !.x = x]

\* delete_match, from the request to its first await (find_one)
StartDelete(id) ==
    IF ~IsValid(id) THEN Ended([Idle EXCEPT !.op = "delete", !.id = id], 400)
    ELSE [Idle EXCEPT !.op = "delete", !.pc = "find", !.id = id]

\* update_match, from the request to its first await (find_one)
StartUpdate(id, x) ==
    IF ~IsValid(id) THEN Ended([Idle EXCEPT !.op = "update", !.id = id, !.x = x], 400)
    ELSE [Idle EXCEPT !.op = "update", !.pc = "find", !.id = id, !.x = x]

\* RollbackStep that derives the team result again from the entry's
\* player_results instead of reading the stored calculated_team_result
RollbackStep_Recompute(db, p) ==
    LET d == p.doc
        prs == d.player_results
        tid == ObjectId(d.team_id)
    IN CASE p.pc = "rb_team" ->
              [db |-> [db EXCEPT !.teams = IncTeam(@, tid, team_inc(team_result(prs)))],
               p |-> LoopAt(p, prs, NextNonSub(prs, 1), "rb_global", [p EXCEPT !.pc = "del"])]
         [] p.pc = "rb_global" ->
              [db |-> [db EXCEPT !.players =
                          IncPlayer(@, ObjectId(prs[p.i].player_id), g_inc(prs[p.i].result))],
               p |-> [p EXCEPT !.pc = "rb_sub"]]
         [] p.pc = "rb_sub" ->
              [db |-> [db EXCEPT !.teams =
                          IncSubRecord(@, tid, prs[p.i].player_id, t_inc(prs[p.i].result))],
               p |-> LoopAt(p, prs, NextNonSub(prs, p.i + 1), "rb_global",
                            [p EXCEPT !.pc = "del"])]

\* rollback_match_stats: one awaited store call of it, on the fetched entry p.doc
RollbackStep(db, p) ==
    LET d == p.doc
        prs == d.player_results
        tid == ObjectId(d.team_id)
    IN CASE p.pc = "rb_team" ->
              [db |-> [db EXCEPT !.teams = IncTeam(@, tid, team_inc(d.calculated_team_result))],
               p |-> LoopAt(p, prs, NextNonSub(prs, 1), "rb_global", [p EXCEPT !.pc = "del"])]
         [] p.pc = "rb_global" ->
              [db |-> [db EXCEPT !.players =
                          IncPlayer(@, ObjectId(prs[p.i].player_id), g_inc(prs[p.i].result))],
               p |-> [p EXCEPT !.pc = "rb_sub"]]
         [] p.pc = "rb_sub" ->
              [db |-> [db EXCEPT !.teams =
                          IncSubRecord(@, tid, prs[p.i].player_id, t_inc(prs[p.i].result))],
               p |-> LoopAt(p, prs, NextNonSub(prs, p.i + 1), "rb_global",
                            [p EXCEPT !.pc = "del"])]

\* RecordStep with the two player updates in the other order: the per-team
\* sub-record first, the global counters second
RecordStep_SubFirst(db, p) ==
    LET x == p.x
        prs == x.player_results
        tid == ObjectId(x.team_id)
    IN CASE p.pc = "insert" ->
              [db |-> [db EXCEPT !.matches[db.nextId] = match_doc(x), !.nextId = @ + 1],
               p |-> TeamNext([p EXCEPT !.id = db.nextId], x.team_id, "team")]
         [] p.pc = "team" ->
              [db |-> [db EXCEPT !.teams =
                          IncTeam(@, tid, team_update_fields(team_result(prs), points_awarded(prs)))],
               p |-> LoopAt(p, prs, NextNonSub(prs, 1), "global", Returned(p, record_return(team_result(prs))))]
         [] p.pc = "global" ->
              [db |-> [db EXCEPT !.teams =
                          IncSubRecord(@, tid, prs[p.i].player_id, tourney_inc(prs[p.i].result))],
               p |-> [p EXCEPT !.pc = "sub"]]
         [] p.pc = "sub" ->
              [db |-> [db EXCEPT !.players =
                          IncPlayer(@, ObjectId(prs[p.i].player_id), global_inc(prs[p.i].result))],
               p |-> LoopAt(p, prs, NextNonSub(prs, p.i + 1), "global", Returned(p, record_return(team_result(prs))))]

\* record_match: one awaited store call of it
RecordStep(db, p) ==
    LET x == p.x
        prs == x.player_results
        tid == ObjectId(x.team_id)
    IN CASE p.pc = "insert" ->
              [db |-> [db EXCEPT !.matches[db.nextId] = match_doc(x), !.nextId = @ + 1],
               p |-> TeamNext([p EXCEPT !.id = db.nextId], x.team_id, "team")]
         [] p.pc = "team" ->
              [db |-> [db EXCEPT !.teams =
                          IncTeam(@, tid, team_update_fields(team_result(prs), points_awarded(prs)))],
               p |-> LoopAt(p, prs, NextNonSub(prs, 1), "global", Returned(p, record_return(team_result(prs))))]
         [] p.pc = "global" ->
              [db |-> [db EXCEPT !.players =
                          IncPlayer(@, ObjectId(prs[p.i].player_id), global_inc(prs[p.i].result))],
               p |-> [p EXCEPT !.pc = "sub"]]
         [] p.pc = "sub" ->
              [db |-> [db EXCEPT !.teams =
                          IncSubRecord(@, tid, prs[p.i].player_id, tourney_inc(prs[p.i].result))],
               p |-> LoopAt(p, prs, NextNonSub(prs, p.i + 1), "global", Returned(p, record_return(team_result(prs))))]

\* update_match after the old entry is deleted: one awaited store call of it
UpdateStep(db, p) ==
    LET x == p.x
        prs == x.player_results
        tid == ObjectId(x.team_id)
        oid == ObjectId(p.id)
    IN CASE p.pc = "upd_insert" ->
              IF FindMatch(db.matches, oid) # NoDoc
              THEN [db |-> db, p |-> Ended(p, 500)]
              ELSE [db |-> [db EXCEPT !.matches[oid] = upd_match_doc(x)],
                    p |-> TeamNext(p, x.team_id, "upd_team")]
         [] p.pc = "upd_team" ->
              [db |-> [db EXCEPT !.teams =
                          IncTeam(@, tid, upd_team_update_fields(upd_team_result(prs),
                                                                 upd_points_awarded(prs)))],
               p |-> LoopAt(p, prs, NextNonSub(prs, 1), "upd_global", Returned(p, update_return))]
         [] p.pc = "upd_global" ->
              [db |-> [db EXCEPT !.players =
                          IncPlayer(@, ObjectId(prs[p.i].player_id), upd_global_inc(prs[p.i].result))],
               p |-> [p EXCEPT !.pc = "upd_sub"]]
         [] p.pc = "upd_sub" ->
              [db |-> [db EXCEPT !.teams =
                          IncSubRecord(@, tid, prs[p.i].player_id, upd_tourney_inc(prs[p.i].result))],
               p |-> LoopAt(p, prs, NextNonSub(prs, p.i + 1), "upd_global", Returned(p, update_return))]

\* delete_match and update_match: the fetch of the entry and its removal
FetchStep(db, p) ==
    LET oid == ObjectId(p.id)
    IN CASE p.pc = "find" ->
              LET m == FindMatch(db.matches, oid)
              IN IF m = NoDoc THEN [db |-> db, p |-> Ended(p, 404)]
                 ELSE [db |-> db, p |-> TeamNext([p EXCEPT !.doc = m], m.team_id, "rb_team")]
         [] p.pc = "del" ->
              [db |-> IF oid \in DOMAIN db.matches
                      THEN [db EXCEPT !.matches[oid] = NoDoc] ELSE db,
               p |-> IF p.op = "update" THEN [p EXCEPT !.pc = "upd_insert"]
                     ELSE Returned(p, delete_return)]

\* One awaited store call of the handler p is running
Step(db, p) ==
    CASE p.pc \in {"find", "del"} -> FetchStep(db, p)
      [] p.pc \in {"rb_team", "rb_global", "rb_sub"} -> RollbackStep(db, p)
      [] p.pc \in {"insert", "team", "global", "sub"} -> RecordStep(db, p)
      [] p.pc \in {"upd_insert", "upd_team", "upd_global", "upd_sub"} -> UpdateStep(db, p)

\* A handler run from p to its end with no other handler in between
RECURSIVE Run(_, _)
Run(db, p) == IF Running(p) THEN LET r == Step(db, p) IN Run(r.db, r.p)
              ELSE [db |-> db, p |-> p]

(***************************************************************************)
(* The state.  matches, teams and players are the three collections;       *)
(* nextId is the next ObjectId insert_one mints for a ledger entry; procs  *)
(* are the handlers in progress.  The other variables only observe:        *)
(* last is the report of the latest handler that ran alone (the request,   *)
(* the response status, the collections before it), snap[m] the team and   *)
(* player documents as they were before the record_match that created the  *)
(* entry m (dropped once a document that entry touches is changed by       *)
(* another request), rolled the entries delete_match has been called on,   *)
(* hist the requests started so far, overlapped whether                    *)
(* a store call ran while another handler was in progress, budget the      *)
(* requests and player_results entries submitted so far and the store      *)
(* calls that raised.                                                      *)
(***************************************************************************)
DB == [matches |-> matches, teams |-> teams, players |-> players, nextId |-> nextId]

SetDB(db) ==
    /\ matches' = db.matches
    /\ teams' = db.teams
    /\ players' = db.players
    /\ nextId' = db.nextId

ProcIds == {1, 2}

\* The database after add_player for the players 1 and 2 and add_team for
\* team 1 (roster 1, 2) and team 2 (roster 2), both in tournament 1
InitDB ==
    [matches |-> [m \in MatchIds |-> NoDoc],
     teams |-> [t \in TeamIds |-> IF t = 1 THEN NewTeam(1, <<1, 2>>) ELSE NewTeam(1, <<2>>)],
     players |-> [q \in PlayerIds |-> ZeroStats],
     nextId |-> 1]

NoReport == [op |-> "none", id |-> UnknownId, x |-> NoDoc, status |-> 0, body |-> NoDoc,
             pre |-> NoDoc, base |-> NoDoc, stale |-> FALSE]

Init ==
    /\ matches = InitDB.matches
    /\ teams = InitDB.teams
    /\ players = InitDB.players
    /\ nextId = InitDB.nextId
    /\ procs = [i \in ProcIds |-> Idle]
    /\ last = NoReport
    /\ snap = [m \in MatchIds |-> NoDoc]
    /\ rolled = {}
    /\ hist = <<>>
    /\ overlapped = FALSE
    /\ budget = [entries |-> 0, requests |-> 0, failures |-> 0]

(***************************************************************************)
(* Requests.  A domain names the identifier strings and opponent names the *)
(* clients send and the length of their longest list; the lists of player  *)
(* results are all lists over them that the entry budget still allows.     *)
(***************************************************************************)
Lists(S, n) == UNION {[1..k -> S] : k \in 0..n}

PlayerResults(dom, n) == Lists([player_id : dom.players, result : dom.results], n)

\* MatchCreate bodies
Requests(dom) ==
    [tournament_id : dom.tournaments, team_id : dom.teams,
     opponent_name : dom.opponents,
     player_results : PlayerResults(dom, IF dom.longest < MaxEntries - budget.entries
                                         THEN dom.longest ELSE MaxEntries - budget.entries)]

Spend(x) ==
    /\ budget.requests < MaxRequests
    /\ budget' = [budget EXCEPT !.entries = @ + Len(x.player_results),
                                 !.requests = @ + 1]

\* The team and player documents an entry's accrual writes to
Related(doc) ==
    {<<"team", ObjectId(doc.team_id)>>} \cup
    {<<"player", ObjectId(doc.player_results[i].player_id)>> :
        i \in {j \in 1..Len(doc.player_results) :
                 /\ doc.player_results[j].result # "sub"
                 /\ IsValid(doc.player_results[j].player_id)}}

\* The team and player documents that differ between two databases
Changed(a, b) ==
    {<<"team", t>> : t \in {u \in TeamIds : a.teams[u] # b.teams[u]}} \cup
    {<<"player", q>> : q \in {u \in PlayerIds : a.players[u] # b.players[u]}}

\* snap after a request that took the database from a to b: the snapshot of
\* an entry is dropped when the request changed a document the entry touches
KeepSnaps(a, b) ==
    [m \in MatchIds |->
        IF snap[m] # NoDoc /\ a.matches[m] # NoDoc /\ b.matches[m] = a.matches[m]
           /\ Related(a.matches[m]) \cap Changed(a, b) = {}
        THEN snap[m] ELSE NoDoc]

Alone == \A i \in ProcIds : ~Running(procs[i])

\* A well-formed id that names no entry the ledger should hold: delete_match
\* was already called on its entry, or insert_one never minted it
Stale(id) == IsValid(id) /\ (ObjectId(id) \in rolled \/ ObjectId(id) \notin 1..(nextId - 1))

Report(op, r, x, base) ==
    [op |-> op, id |-> r.p.id, x |-> x, status |-> r.p.status, body |-> r.p.body,
     pre |-> DB, base |-> base,
     stale |-> op # "record" /\ Stale(r.p.id)]

(***************************************************************************)
(* The handlers, each run alone from its request to its response.          *)
(***************************************************************************)
\* POST /matches/
record_match(x) ==
    /\ Alone
    /\ nextId <= MaxMatches
    /\ Spend(x)
    /\ LET r == Run(DB, StartRecord(x))
       IN /\ SetDB(r.db)
          /\ last' = Report("record", r, x, NoDoc)
          /\ snap' = [KeepSnaps(DB, r.db) EXCEPT ![r.p.id] =
                         IF r.p.status = 200
                         THEN [teams |-> teams, players |-> players] ELSE NoDoc]
    /\ UNCHANGED <<procs, rolled, hist, overlapped>>

\* DELETE /matches/{id}
delete_match(id) ==
    /\ Alone
    /\ \A t \in TeamIds : teams[t] # NoDoc => teams[t].stats.matches_played > - MaxDebt
    /\ LET r == Run(DB, StartDelete(id))
       IN /\ SetDB(r.db)
          /\ last' = Report("delete", r, NoDoc,
                            IF ObjectId(id) \in MatchIds THEN snap[ObjectId(id)] ELSE NoDoc)
          /\ snap' = KeepSnaps(DB, r.db)
          /\ rolled' = IF r.p.doc # NoDoc THEN rolled \cup {ObjectId(id)} ELSE rolled
    /\ UNCHANGED <<procs, hist, overlapped, budget>>

\* PUT /matches/{id}
update_match(id, x) ==
    /\ Alone
    /\ Spend(x)
    /\ LET r == Run(DB, StartUpdate(id, x))
       IN /\ SetDB(r.db)
          /\ last' = Report("update", r, x, NoDoc)
          /\ snap' = KeepSnaps(DB, r.db)
    /\ UNCHANGED <<procs, rolled, hist, overlapped>>

\* delete_team that also removes the ledger entries of the team
delete_team_Cascade(id) ==
    /\ Alone
    /\ LET oid == ObjectId(id)
           found == IsValid(id) /\ oid \in TeamIds /\ teams[oid] # NoDoc
           db == IF found
                 THEN [DB EXCEPT !.teams[oid] = NoDoc,
                                 !.matches = [m \in MatchIds |->
                                                 IF @[m] # NoDoc /\ @[m].team_id = id
                                                 THEN NoDoc ELSE @[m]]]
                 ELSE DB
       IN /\ SetDB(db)
          /\ last' = [NoReport EXCEPT !.op = "delete_team", !.id = id, !.pre = DB,
                         !.status = IF ~IsValid(id) THEN 400 ELSE IF found THEN 200 ELSE 404]
          /\ snap' = KeepSnaps(DB, db)
    /\ UNCHANGED <<procs, rolled, hist, overlapped, budget>>

\* DELETE /teams/{id}: one delete_one, nothing else
delete_team(id) ==
    /\ Alone
    /\ LET oid == ObjectId(id)
           found == IsValid(id) /\ oid \in TeamIds /\ teams[oid] # NoDoc
           db == IF found THEN [DB EXCEPT !.teams[oid] = NoDoc] ELSE DB
       IN /\ SetDB(db)
          /\ last' = [NoReport EXCEPT !.op = "delete_team", !.id = id, !.pre = DB,
                         !.status = IF ~IsValid(id) THEN 400 ELSE IF found THEN 200 ELSE 404]
          /\ snap' = KeepSnaps(DB, db)
    /\ UNCHANGED <<procs, rolled, hist, overlapped, budget>>

\* DELETE /players/{id}: one delete_one, nothing else
delete_player(id) ==
    /\ Alone
    /\ LET oid == ObjectId(id)
           found == IsValid(id) /\ oid \in PlayerIds /\ players[oid] # NoDoc
           db == IF found THEN [DB EXCEPT !.players[oid] = NoDoc] ELSE DB
       IN /\ SetDB(db)
          /\ last' = [NoReport EXCEPT !.op = "delete_player", !.id = id, !.pre = DB,
                         !.status = IF ~IsValid(id) THEN 400 ELSE IF found THEN 200 ELSE 404]
          /\ snap' = KeepSnaps(DB, db)
    /\ UNCHANGED <<procs, rolled, hist, overlapped, budget>>

\* The requests of the main specification: the identifiers of the existing
\* teams, players and ledger entries
Clients ==
    [tournaments |-> {1}, teams |-> {1, 2}, players |-> {1, 2}, results |-> Results,
     opponents |-> {"Rovers"}, matches |-> MatchIds, longest |-> MaxEntries]

Next ==
    \/ \E x \in Requests(Clients) : record_match(x)
    \/ \E id \in Clients.matches : delete_match(id)
    \/ \E id \in Clients.matches : \E x \in Requests(Clients) : update_match(id, x)

Spec == Init /\ [][Next]_vars

\* Requests that name teams, tournaments, players and entries that do not
\* exist: team 2 has player 2 on its roster, player 1 exists and is on no
\* roster of team 2, UnknownId names nothing
ClientsRefs ==
    [tournaments |-> {1, UnknownId}, teams |-> {2, UnknownId}, players |-> {1, 2, UnknownId},
     results |-> {"win", "sub"}, opponents |-> {"Rovers"}, matches |-> MatchIds,
     longest |-> MaxEntries]

NextRefs ==
    \/ \E x \in Requests(ClientsRefs) : record_match(x)
    \/ \E id \in ClientsRefs.matches : delete_match(id)
    \/ \E id \in ClientsRefs.matches : \E x \in Requests(ClientsRefs) : update_match(id, x)

SpecRefs == Init /\ [][NextRefs]_vars

\* Requests whose identifier strings are malformed, or spell an ObjectId in
\* another way than the roster does
ClientsIds ==
    [tournaments |-> {1}, teams |-> {1, BadId}, players |-> {1, 1 + AltSpelling, BadId},
     results |-> {"win", "sub"}, opponents |-> {"Rovers"},
     matches |-> MatchIds \cup {BadId}, longest |-> MaxEntries]

NextIds ==
    \/ \E x \in Requests(ClientsIds) : record_match(x)
    \/ \E id \in ClientsIds.matches : delete_match(id)
    \/ \E id \in ClientsIds.matches : \E x \in Requests(ClientsIds) : update_match(id, x)

SpecIds == Init /\ [][NextIds]_vars

\* Requests with the deletion of teams and players: team 2 and its one
\* player, and the other team's identifier for delete_team
ClientsTeams ==
    [tournaments |-> {1}, teams |-> {2}, players |-> {2},
     results |-> {"win", "loss", "sub"}, opponents |-> {"Rovers"}, matches |-> MatchIds,
     longest |-> MaxEntries, removable |-> {1, 2, UnknownId, BadId}]

NextTeams ==
    \/ \E x \in Requests(ClientsTeams) : record_match(x)
    \/ \E id \in ClientsTeams.matches : delete_match(id)
    \/ \E id \in ClientsTeams.matches : \E x \in Requests(ClientsTeams) : update_match(id, x)
    \/ \E id \in ClientsTeams.removable : delete_team(id)
    \/ \E id \in ClientsTeams.players : delete_player(id)

SpecTeams == Init /\ [][NextTeams]_vars

(***************************************************************************)
(* Concurrent handlers.  The event loop runs a handler up to its next      *)
(* await and may then run any other; the store executes the awaited calls  *)
(* one at a time.                                                          *)
(***************************************************************************)
\* ledger identifiers still to be minted for the record_match calls in progress
Reserved == Cardinality({i \in ProcIds : procs[i].pc = "insert"})

\* a request arrives and its handler runs to its first await; handlers have
\* no identity of their own, i is the first slot not in use
Call(i, p, op, id, x) ==
    /\ ~Running(procs[i])
    /\ \A j \in ProcIds : j < i => Running(procs[j])
    /\ Len(hist) < MaxCalls
    /\ procs' = [procs EXCEPT ![i] = p]
    /\ hist' = Append(hist, [op |-> op, id |-> id, x |-> x])
    /\ UNCHANGED <<matches, teams, players, nextId, last, snap, rolled, overlapped>>

call_record_match(i, x) ==
    /\ nextId + Reserved <= MaxMatches
    /\ Spend(x)
    /\ Call(i, StartRecord(x), "record", UnknownId, x)

call_delete_match(i, id) ==
    /\ \A t \in TeamIds : teams[t] # NoDoc => teams[t].stats.matches_played > - MaxDebt
    /\ Call(i, StartDelete(id), "delete", id, NoDoc)
    /\ UNCHANGED budget

call_update_match(i, id, x) ==
    /\ Spend(x)
    /\ Call(i, StartUpdate(id, x), "update", id, x)

\* the store executes the call handler i awaits, and the handler runs on to
\* its next await or to its end
StoreCall(i) ==
    /\ Running(procs[i])
    /\ LET r == Step(DB, procs[i])
       IN /\ SetDB(r.db)
          /\ procs' = [procs EXCEPT ![i] = r.p]
    /\ overlapped' = (overlapped \/ \E j \in ProcIds \ {i} : Running(procs[j]))
    /\ UNCHANGED <<last, snap, rolled, hist, budget>>

\* The requests of the concurrent specification: player 1 has a sub-record in
\* team 1 and none in team 2
ClientsConc ==
    [tournaments |-> {1}, teams |-> {1, 2}, players |-> {1},
     results |-> {"win", "loss", "sub"}, opponents |-> {"Rovers"}, matches |-> MatchIds,
     longest |-> MaxEntries - 2]

NextConc ==
    \/ \E i \in ProcIds : \E x \in Requests(ClientsConc) : call_record_match(i, x)
    \/ \E i \in ProcIds : \E id \in ClientsConc.matches : call_delete_match(i, id)
    \/ \E i \in ProcIds : \E id \in ClientsConc.matches :
          \E x \in Requests(ClientsConc) : call_update_match(i, id, x)
    \/ \E i \in ProcIds : StoreCall(i)

SpecConc == Init /\ [][NextConc]_vars

(***************************************************************************)
(* Store failures.  An awaited store call may raise (the server cannot be  *)
(* reached); no handler catches the exception, so the handler ends there   *)
(* with status 500 and the call's write is not made.                       *)
(***************************************************************************)
\* StoreFails with a compensation: a record_match that fails after its
\* insert_one takes its entry out of the ledger again
StoreFails_Undo(i) ==
    /\ Running(procs[i])
    /\ budget.failures < MaxFailures
    /\ procs' = [procs EXCEPT ![i] = [Ended(@, 500) EXCEPT !.exc = procs[i].pc]]
    /\ budget' = [budget EXCEPT !.failures = @ + 1]
    /\ matches' = IF procs[i].op = "record" /\ procs[i].pc # "insert"
                  THEN [matches EXCEPT ![procs[i].id] = NoDoc] ELSE matches
    /\ UNCHANGED <<teams, players, nextId, last, snap, rolled, hist, overlapped>>

StoreFails(i) ==
    /\ Running(procs[i])
    /\ budget.failures < MaxFailures
    /\ procs' = [procs EXCEPT ![i] = [Ended(@, 500) EXCEPT !.exc = procs[i].pc]]
    /\ budget' = [budget EXCEPT !.failures = @ + 1]
    /\ UNCHANGED <<matches, teams, players, nextId, last, snap, rolled, hist, overlapped>>

\* The requests of the specification with store failures: team 1 and the two
\* players of its roster
ClientsFail ==
    [tournaments |-> {1}, teams |-> {1}, players |-> {1, 2},
     results |-> {"win", "sub"}, opponents |-> {"Rovers"}, matches |-> MatchIds,
     longest |-> MaxEntries]

\* one request at a time, its handler one store call at a time
NextFail ==
    \/ \E x \in Requests(ClientsFail) : Alone /\ call_record_match(1, x)
    \/ \E id \in ClientsFail.matches : Alone /\ call_delete_match(1, id)
    \/ \E id \in ClientsFail.matches :
          \E x \in Requests(ClientsFail) : Alone /\ call_update_match(1, id, x)
    \/ StoreCall(1)
    \/ StoreFails(1)

SpecFail == Init /\ [][NextFail]_vars

(***************************************************************************)
(* Properties.                                                             *)
(***************************************************************************)
SumOk(st) == st.wins + st.draws + st.loss = st.matches_played

LastOk(op) == last.op = op /\ last.status = 200

\* positions of a list with the given result
Positions(prs, r) == {i \in 1..Len(prs) : prs[i].result = r}

\* players a list names with some result other than sub
NonSubPlayers(prs) ==
    {ObjectId(prs[i].player_id) :
        i \in {j \in 1..Len(prs) : prs[j].result # "sub" /\ IsValid(prs[j].player_id)}}

\* players a list names as sub
SubPlayers(prs) == {ObjectId(prs[i].player_id) : i \in Positions(prs, "sub")}

\* C1: every global player document, every team document and every embedded
\* per-team sub-record satisfies wins + draws + loss = matches_played
C1_SumInvariant ==
    /\ \A q \in PlayerIds : players[q] # NoDoc => SumOk(players[q])
    /\ \A t \in TeamIds : teams[t] # NoDoc =>
          /\ SumOk(teams[t].stats)
          /\ \A i \in 1..Len(teams[t].players) : SumOk(teams[t].players[i].stats)

\* C1's case: a match was deleted while another one still counts for its team
C1_Witness ==
    /\ LastOk("delete")
    /\ \E t \in TeamIds : teams[t].stats.matches_played > 0
    /\ \E q \in PlayerIds : players[q].matches_played > 0

\* C2: delete_match on the entry a completed record_match created puts every
\* document that record_match touched back to what it was before the
\* record_match, whatever happened to other documents in between, and the
\* entry is gone
C2_RecordDeleteInverse ==
    (LastOk("delete") /\ last.base # NoDoc) =>
        LET doc == last.pre.matches[ObjectId(last.id)]
        IN /\ matches[ObjectId(last.id)] = NoDoc
           /\ \A t \in TeamIds : t = ObjectId(doc.team_id) => teams[t] = last.base.teams[t]
           /\ \A q \in NonSubPlayers(doc.player_results) \cap PlayerIds :
                 players[q] = last.base.players[q]

\* C2's case: the deleted entry had counted for a team and a player, and
\* between its record and its delete another team's document changed
C2_Witness ==
    /\ LastOk("delete") /\ last.base # NoDoc
    /\ NonSubPlayers(last.pre.matches[ObjectId(last.id)].player_results) # {}
    /\ \E t \in TeamIds : last.base.teams[t] # last.pre.teams[t]
                          /\ t # ObjectId(last.pre.matches[ObjectId(last.id)].team_id)

Entries(M) == {m \in DOMAIN M : M[m] # NoDoc}

\* C5: update_match(id, x) leaves one entry under id with x's fields and the
\* result record_match derives, as many entries as before, and the team and
\* player documents that delete_match(id) followed by record_match(x) leaves
C5_UpdateIsDeleteThenRecord ==
    LastOk("update") =>
        LET oid == ObjectId(last.id)
            d == Run(last.pre, StartDelete(last.id)).db
            r == Run(d, StartRecord(last.x)).db
        IN /\ matches[oid] = match_doc(last.x)
           /\ matches[oid].tournament_id = last.x.tournament_id
           /\ matches[oid].team_id = last.x.team_id
           /\ matches[oid].opponent_name = last.x.opponent_name
           /\ matches[oid].player_results = last.x.player_results
           /\ Cardinality(Entries(matches)) = Cardinality(Entries(last.pre.matches))
           /\ teams = r.teams
           /\ players = r.players

\* C5's case: the new body names another team and another player than the old entry
C5_Witness ==
    /\ LastOk("update")
    /\ last.pre.matches[ObjectId(last.id)].team_id # last.x.team_id
    /\ NonSubPlayers(last.pre.matches[ObjectId(last.id)].player_results) # {}
    /\ NonSubPlayers(last.x.player_results) # {}
    /\ NonSubPlayers(last.pre.matches[ObjectId(last.id)].player_results)
          \cap NonSubPlayers(last.x.player_results) = {}

\* The outcome and points section 4.1 of the specification gives a list
ExpectedResult(prs) ==
    LET w == Cardinality(Positions(prs, "win"))
        l == Cardinality(Positions(prs, "loss"))
    IN IF w > l THEN "win" ELSE IF l > w THEN "loss" ELSE "draw"

ExpectedPoints(prs) ==
    LET w == Cardinality(Positions(prs, "win"))
        l == Cardinality(Positions(prs, "loss"))
    IN IF w > l THEN 3 ELSE IF l > w THEN 0 ELSE 1

StoredPoints(tr) == IF tr = "win" THEN 3 ELSE IF tr = "loss" THEN 0 ELSE 1

\* points of team t after the last handler minus its points before it
PointsGained(t) == teams[t].stats.points - last.pre.teams[t].stats.points

\* the ledger entry the last delete_match or update_match fetched
OldEntry == last.pre.matches[ObjectId(last.id)]

Is(b) == IF b THEN 1 ELSE 0

\* C7: the stored team result and the points added are (win, 3) when the wins
\* outnumber the losses, (loss, 0) when the losses outnumber the wins and
\* (draw, 1) otherwise, in record_match and in update_match alike, and a
\* rollback takes 3, 0, 1 points for a stored win, loss, draw
C7_Resolver ==
    /\ LastOk("record") =>
          /\ matches[last.id].calculated_team_result = ExpectedResult(last.x.player_results)
          /\ \A t \in TeamIds : teams[t] # NoDoc =>
                PointsGained(t) = Is(t = ObjectId(last.x.team_id))
                                     * ExpectedPoints(last.x.player_results)
    /\ LastOk("update") =>
          /\ matches[ObjectId(last.id)].calculated_team_result
                = ExpectedResult(last.x.player_results)
          /\ \A t \in TeamIds : teams[t] # NoDoc =>
                PointsGained(t) =
                    Is(t = ObjectId(last.x.team_id)) * ExpectedPoints(last.x.player_results)
                    - Is(t = ObjectId(OldEntry.team_id))
                         * StoredPoints(OldEntry.calculated_team_result)
    /\ LastOk("delete") =>
          \A t \in TeamIds : teams[t] # NoDoc =>
                PointsGained(t) = - Is(t = ObjectId(OldEntry.team_id))
                                       * StoredPoints(OldEntry.calculated_team_result)

\* C7's case: an update_match to a list with one win and one loss, a draw,
\* replacing an entry stored as a win
C7_Witness ==
    /\ LastOk("update")
    /\ Cardinality(Positions(last.x.player_results, "win")) = 1
    /\ Cardinality(Positions(last.x.player_results, "loss")) = 1
    /\ OldEntry.calculated_team_result = "win"
    /\ matches[ObjectId(last.id)].calculated_team_result = "draw"

\* the sub-records of player q, team by team, in the team documents T
SubRecords(T, q) ==
    [t \in TeamIds |->
        IF T[t] = NoDoc THEN {}
        ELSE {<<i, T[t].players[i].stats>> :
                 i \in {j \in 1..Len(T[t].players) : T[t].players[j].player_id = q}}]

\* the counters of player q are what they were before the last handler
Untouched(q) ==
    /\ q \in PlayerIds => players[q] = last.pre.players[q]
    /\ SubRecords(teams, q) = SubRecords(last.pre.teams, q)

\* matches_played of team t after the last handler minus before it
PlayedGained(t) == teams[t].stats.matches_played - last.pre.teams[t].stats.matches_played

\* the team documents still take the match: one more match for the team of a
\* recorded entry, one less for the team of a removed one
TeamsUpdated(old, new) ==
    \A t \in TeamIds : teams[t] # NoDoc =>
        PlayedGained(t) = Is(new # NoDoc /\ t = ObjectId(new.team_id))
                          - Is(old # NoDoc /\ t = ObjectId(old.team_id))

\* C8 as stated: a player listed with result sub in a match has no counter
\* changed by record_match, delete_match or update_match of that match,
\* while the team aggregate is updated
C8_SubUntouched ==
    /\ LastOk("record") =>
          /\ \A q \in SubPlayers(last.x.player_results) : Untouched(q)
          /\ TeamsUpdated(NoDoc, last.x)
    /\ LastOk("delete") =>
          /\ \A q \in SubPlayers(OldEntry.player_results) : Untouched(q)
          /\ TeamsUpdated(OldEntry, NoDoc)
    /\ LastOk("update") =>
          /\ \A q \in SubPlayers(OldEntry.player_results)
                        \cap SubPlayers(last.x.player_results) : Untouched(q)
          /\ TeamsUpdated(OldEntry, last.x)

\* players a list names as sub and with no other result
SubOnly(prs) == SubPlayers(prs) \ NonSubPlayers(prs)

\* C8, amended: a player whose entries in a match are all sub has no counter
\* changed by record_match or delete_match of it, nor by an update_match in
\* which the player has no entry other than sub in the old entry and in the
\* new one; the team aggregate is updated
C8_SubOnlyUntouched ==
    /\ LastOk("record") =>
          /\ \A q \in SubOnly(last.x.player_results) : Untouched(q)
          /\ TeamsUpdated(NoDoc, last.x)
    /\ LastOk("delete") =>
          /\ \A q \in SubOnly(OldEntry.player_results) : Untouched(q)
          /\ TeamsUpdated(OldEntry, NoDoc)
    /\ LastOk("update") =>
          /\ \A q \in (SubPlayers(OldEntry.player_results)
                         \cup SubPlayers(last.x.player_results))
                      \ (NonSubPlayers(OldEntry.player_results)
                         \cup NonSubPlayers(last.x.player_results)) : Untouched(q)
          /\ TeamsUpdated(OldEntry, last.x)

\* C8's case: a recorded match with a sub who already has counters and a
\* player who played
C8_Witness ==
    /\ LastOk("record")
    /\ \E q \in SubOnly(last.x.player_results) \cap PlayerIds : players[q].matches_played > 0
    /\ NonSubPlayers(last.x.player_results) # {}
    /\ PlayedGained(ObjectId(last.x.team_id)) = 1

\* what the entries of a list that name player q with a result other than sub
\* add up to
PlayerTally(prs, q) ==
    LET at(r) == Cardinality({i \in Positions(prs, r) :
                                 IsValid(prs[i].player_id) /\ ObjectId(prs[i].player_id) = q})
    IN [matches_played |-> at("win") + at("draw") + at("loss"),
        wins |-> at("win"), draws |-> at("draw"), loss |-> at("loss")]

\* what a list adds up to for its team
TeamTally(prs) ==
    [matches_played |-> 1, points |-> ExpectedPoints(prs),
     wins |-> Is(ExpectedResult(prs) = "win"),
     loss |-> Is(ExpectedResult(prs) = "loss"),
     draws |-> Is(ExpectedResult(prs) = "draw")]

NoTally(st) == [f \in DOMAIN st |-> 0]

\* what a list adds up to for the roster sub-record stored under the
\* identifier pid: the entries that played and spell the identifier as the
\* roster does
SubRecordTally(prs, pid) ==
    LET at(r) == Cardinality({i \in Positions(prs, r) : prs[i].player_id = pid})
    IN [matches_played |-> at("win") + at("draw") + at("loss"),
        wins |-> at("win"), draws |-> at("draw"), loss |-> at("loss")]

RECURSIVE SumTally(_, _, _)
\* the sum of the tallies f[1], ..., f[n], from zero
SumTally(f, n, zero) == IF n = 0 THEN zero ELSE Inc(SumTally(f, n - 1, zero), f[n])

\* the entry m of the ledger M is an entry for team t
ForTeam(M, m, t) == M[m] # NoDoc /\ IsValid(M[m].team_id) /\ ObjectId(M[m].team_id) = t

\* the sums of the deltas of the entries in the ledger M: of team t, of
\* player q, of player q within team t
LedgerTeam(M, t) ==
    SumTally([m \in MatchIds |-> IF ForTeam(M, m, t) THEN TeamTally(M[m].player_results)
                                 ELSE NoTally(ZeroTeamStats)],
             MaxMatches, ZeroTeamStats)

LedgerPlayer(M, q) ==
    SumTally([m \in MatchIds |-> IF M[m] # NoDoc THEN PlayerTally(M[m].player_results, q)
                                 ELSE ZeroStats],
             MaxMatches, ZeroStats)

LedgerSubRecord(M, t, q) ==
    SumTally([m \in MatchIds |-> IF ForTeam(M, m, t) THEN PlayerTally(M[m].player_results, q)
                                 ELSE ZeroStats],
             MaxMatches, ZeroStats)

\* C3: with no handler in progress, every team's stats are the sum of the
\* team deltas of the ledger entries of that team, and every player's global
\* counters and per-team sub-record counters the sum of the player's
\* non-sub deltas over the entries in the ledger
C3_AggregatesMatchLedger ==
    Alone =>
        /\ \A t \in TeamIds : teams[t] # NoDoc =>
              /\ teams[t].stats = LedgerTeam(matches, t)
              /\ \A i \in 1..Len(teams[t].players) :
                    teams[t].players[i].stats
                       = LedgerSubRecord(matches, t, ObjectId(teams[t].players[i].player_id))
        /\ \A q \in PlayerIds : players[q] # NoDoc => players[q] = LedgerPlayer(matches, q)

\* the team or the tournament a request names does not exist
UnknownTarget(db, x) ==
    \/ ~IsValid(x.team_id)
    \/ ObjectId(x.team_id) \notin TeamIds
    \/ db.teams[ObjectId(x.team_id)] = NoDoc
    \/ x.tournament_id \notin TournamentIds

Unwritten ==
    /\ matches = last.pre.matches
    /\ teams = last.pre.teams
    /\ players = last.pre.players

\* C4: record_match with a team_id or tournament_id that names no team or
\* tournament answers with an error and writes nothing
C4_UnknownTargetRejected ==
    (last.op = "record" /\ UnknownTarget(last.pre, last.x)) =>
        (last.status >= 400 /\ Unwritten)

\* C6: a second rollback never subtracts again: delete_match or update_match
\* on an id whose entry delete_match was already called on, or that was never
\* in the ledger, fails (not found, says the claim) and changes no counter
\* and no ledger entry
C6_NoSecondRollback ==
    (last.op \in {"delete", "update"} /\ last.stale) =>
        (last.status >= 400 /\ Unwritten)

\* the targets of entry i of a request: the global player document and the
\* sub-record in the roster of the request's team
NoPlayerDoc(db, x, i) ==
    LET q == ObjectId(x.player_results[i].player_id)
    IN q \notin PlayerIds \/ db.players[q] = NoDoc

NoSubRecord(db, x, i) ==
    LET t == ObjectId(x.team_id)
    IN t \in TeamIds /\ db.teams[t] # NoDoc
       /\ FirstPos(db.teams[t].players, x.player_results[i].player_id) = 0

\* a request of well-formed identifiers with an entry that played whose
\* player document or sub-record does not exist
BadReference(db, x) ==
    /\ IsValid(x.team_id)
    /\ \A i \in 1..Len(x.player_results) : IsValid(x.player_results[i].player_id)
    /\ \E i \in 1..Len(x.player_results) :
          /\ x.player_results[i].result # "sub"
          /\ NoPlayerDoc(db, x, i) \/ NoSubRecord(db, x, i)

\* C10: a record_match whose list names (by a well-formed id) a player with
\* no document, or with no sub-record in the team's roster, still succeeds:
\* the entry is written, the team takes the match, every existing player
\* document and every existing sub-record of the team takes all the entries
\* of its player, and nothing else changes
C10_BadReferenceSkipped ==
    (last.op = "record" /\ BadReference(last.pre, last.x)) =>
        LET prs == last.x.player_results
            t == ObjectId(last.x.team_id)
        IN /\ last.status = 200
           /\ matches[last.id].team_id = last.x.team_id
           /\ matches[last.id].player_results = prs
           /\ \A q \in PlayerIds : last.pre.players[q] # NoDoc =>
                 players[q] = Inc(last.pre.players[q], PlayerTally(prs, q))
           /\ \A u \in TeamIds : last.pre.teams[u] # NoDoc =>
                 /\ teams[u].stats = Inc(last.pre.teams[u].stats,
                                         IF u = t THEN TeamTally(prs) ELSE NoTally(ZeroTeamStats))
                 /\ \A i \in 1..Len(teams[u].players) :
                       teams[u].players[i].stats =
                          Inc(last.pre.teams[u].players[i].stats,
                              IF u = t THEN SubRecordTally(prs, teams[u].players[i].player_id)
                              ELSE ZeroStats)

\* C10's case: player 2 of the roster played before and after an entry that
\* names no player, and has both matches in both scopes
C10_Witness ==
    /\ last.op = "record" /\ BadReference(last.pre, last.x)
    /\ Len(last.x.player_results) = 3
    /\ last.x.player_results[1] = [player_id |-> 2, result |-> "win"]
    /\ last.x.player_results[2] = [player_id |-> UnknownId, result |-> "win"]
    /\ last.x.player_results[3] = [player_id |-> 2, result |-> "win"]
    /\ last.x.team_id = 2
    /\ players[2].wins = last.pre.players[2].wins + 2
    /\ teams[2].players[1].stats.wins = last.pre.teams[2].players[1].stats.wins + 2
    /\ teams[2].stats.matches_played = last.pre.teams[2].stats.matches_played + 1

RECURSIVE RunAll(_, _)
\* the record_match requests of a list run one after the other, each alone
RunAll(db, xs) ==
    IF xs = <<>> THEN db ELSE RunAll(Run(db, StartRecord(Head(xs))).db, Tail(xs))

Reverse(xs) == [k \in 1..Len(xs) |-> xs[Len(xs) + 1 - k]]

Bodies == [k \in 1..Len(hist) |-> hist[k].x]

\* every call so far was a record_match, and all have returned
OnlyRecordsDone ==
    /\ \A k \in 1..Len(hist) : hist[k].op = "record"
    /\ \A i \in ProcIds : ~Running(procs[i])

\* C9: once record_match calls that interleaved at their store calls have all
\* completed, every team and player document is what the calls leave when
\* run one after the other, in the order they came and in the opposite
\* order, and every call's entry is in the ledger
C9_InterleavedRecords ==
    OnlyRecordsDone =>
        /\ teams = RunAll(InitDB, Bodies).teams
        /\ players = RunAll(InitDB, Bodies).players
        /\ teams = RunAll(InitDB, Reverse(Bodies)).teams
        /\ players = RunAll(InitDB, Reverse(Bodies)).players
        /\ \A k \in 1..Len(hist) : \E m \in MatchIds : matches[m] = match_doc(hist[k].x)
        /\ Cardinality(Entries(matches)) = Len(hist)
        /\ \A i \in ProcIds : procs[i].op = "record" => procs[i].status = 200

\* C9's case: two calls for the same team and the same player interleaved
\* and have both completed
C9_Witness ==
    /\ OnlyRecordsDone /\ overlapped /\ Len(hist) = 2
    /\ hist[1].x.team_id = 1 /\ hist[2].x.team_id = 1
    /\ NonSubPlayers(hist[1].x.player_results) = {1}
    /\ NonSubPlayers(hist[2].x.player_results) = {1}
    /\ players[1].matches_played = 2
    /\ teams[1].stats.matches_played = 2

\* a request body with a team_id or a player_id that is not a well-formed
\* object id
Malformed(x) ==
    \/ ~IsValid(x.team_id)
    \/ \E i \in 1..Len(x.player_results) : ~IsValid(x.player_results[i].player_id)

\* C11: a record_match or update_match whose body carries a malformed
\* identifier answers with an error and has written nothing: the ledger, the
\* teams and the players are what they were before the call (for
\* update_match the old entry and its effect included)
C11_MalformedRejected ==
    (last.op \in {"record", "update"} /\ Malformed(last.x)) =>
        (last.status >= 400 /\ Unwritten)

NonNegative(st) == \A f \in DOMAIN st : st[f] >= 0

\* C12: with no handler in progress, every counter of every player document,
\* every team document and every per-team sub-record is at least zero,
\* whatever calls were made before and however they ended
C12_CountersNonNegative ==
    Alone =>
        /\ \A q \in PlayerIds : players[q] # NoDoc => NonNegative(players[q])
        /\ \A t \in TeamIds : teams[t] # NoDoc =>
              /\ NonNegative(teams[t].stats)
              /\ \A i \in 1..Len(teams[t].players) : NonNegative(teams[t].players[i].stats)

\* the names a response may give the entry's identifier and the points
IdFields == {"match_id", "id"}
PointsFields == {"points_awarded", "points"}

\* C13: the response of a successful record_match carries the identifier of
\* the entry it created, the team result and the points awarded, and the
\* identifier names the entry in the ledger
C13_RecordReturnsId ==
    LastOk("record") =>
        /\ \E f \in IdFields \cap DOMAIN last.body :
              /\ last.body[f] = last.id
              /\ FindMatch(matches, ObjectId(last.body[f])) = match_doc(last.x)
        /\ "team_result" \in DOMAIN last.body
        /\ last.body.team_result = ExpectedResult(last.x.player_results)
        /\ \E f \in PointsFields \cap DOMAIN last.body :
              last.body[f] = ExpectedPoints(last.x.player_results)

(***************************************************************************)
(* The writes of a handler in progress.  The lag of a handler is what the  *)
(* sums over the ledger count and the documents do not carry: for an       *)
(* accrual, the increments of its entry still to be issued; for a          *)
(* rollback, the decrements already issued for the entry still in the      *)
(* ledger.                                                                 *)
(***************************************************************************)
Accruing(p) == p.pc \in {"team", "global", "sub", "upd_team", "upd_global", "upd_sub"}

RollingBack(p) == p.pc \in {"rb_team", "rb_global", "rb_sub", "del"}

\* the entries of the handler's list whose update in the given scope
\* ("global" or "sub") is in the lag
LagList(p, scope) ==
    IF Accruing(p)
    THEN LET prs == p.x.player_results
             from == IF p.pc \in {"team", "upd_team"} THEN 1
                     ELSE IF p.pc \in {"global", "upd_global"} THEN p.i
                     ELSE IF scope = "global" THEN p.i + 1 ELSE p.i
         IN SubSeq(prs, from, Len(prs))
    ELSE IF RollingBack(p)
    THEN LET prs == p.doc.player_results
             upto == IF p.pc = "rb_team" THEN 0
                     ELSE IF p.pc = "rb_global" THEN p.i - 1
                     ELSE IF p.pc = "del" THEN Len(prs)
                     ELSE IF scope = "global" THEN p.i ELSE p.i - 1
         IN SubSeq(prs, 1, upto)
    ELSE <<>>

\* the team the handler's entry is for
LagTeamId(p) == IF Accruing(p) THEN ObjectId(p.x.team_id)
                ELSE IF RollingBack(p) THEN ObjectId(p.doc.team_id)
                ELSE UnknownId

LagTeam(p, t) ==
    IF t # LagTeamId(p) THEN NoTally(ZeroTeamStats)
    ELSE IF p.pc \in {"team", "upd_team"} THEN TeamTally(p.x.player_results)
    ELSE IF p.pc \in {"rb_global", "rb_sub", "del"} THEN TeamTally(p.doc.player_results)
    ELSE NoTally(ZeroTeamStats)

LagPlayer(p, q) == PlayerTally(LagList(p, "global"), q)

LagSubRecord(p, t, pid) ==
    IF t # LagTeamId(p) THEN ZeroStats ELSE SubRecordTally(LagList(p, "sub"), pid)

Minus(a, b) == [f \in DOMAIN a |-> a[f] - b[f]]

\* the sum of the lags of the handlers ps
Lags(ps, Lag(_), zero) == SumTally([i \in ProcIds |-> Lag(ps[i])], Cardinality(ProcIds), zero)

\* the entry a handler in the middle of its writes works on is in the ledger
EntryWritten(p) ==
    /\ Accruing(p) => FindMatch(matches, ObjectId(p.id)) = match_doc(p.x)
    /\ RollingBack(p) => FindMatch(matches, ObjectId(p.id)) = p.doc

\* every document carries the sums over the ledger less the lags of the
\* handlers ps
LedgerLessLags(ps) ==
    /\ \A i \in ProcIds : EntryWritten(ps[i])
    /\ \A t \in TeamIds : teams[t] # NoDoc =>
          /\ teams[t].stats =
                Minus(LedgerTeam(matches, t),
                      LET L(p) == LagTeam(p, t) IN Lags(ps, L, ZeroTeamStats))
          /\ \A j \in 1..Len(teams[t].players) :
                LET pid == teams[t].players[j].player_id
                    L(p) == LagSubRecord(p, t, pid)
                IN teams[t].players[j].stats =
                      Minus(LedgerSubRecord(matches, t, ObjectId(pid)), Lags(ps, L, ZeroStats))
    /\ \A q \in PlayerIds : players[q] # NoDoc =>
          players[q] = Minus(LedgerPlayer(matches, q),
                             LET L(p) == LagPlayer(p, q) IN Lags(ps, L, ZeroStats))

\* C14: while no store call has failed and no two handlers have overlapped,
\* the documents at every await of a handler carry exactly a prefix of its
\* writes in the fixed order: the entry is in the ledger before the first
\* increment and until after the last decrement, the team's update comes
\* before the players', and for each entry that is not a sub, in list order,
\* the global update comes before the sub-record's; so no counter ever
\* exceeds the sum over the ledger
C14_WriteOrder ==
    (~overlapped /\ budget.failures = 0) =>
        /\ LedgerLessLags(procs)
        /\ \A t \in TeamIds : \A f \in DOMAIN ZeroTeamStats :
              teams[t].stats[f] <= LedgerTeam(matches, t)[f]
        /\ \A q \in PlayerIds : \A f \in DOMAIN ZeroStats :
              players[q][f] <= LedgerPlayer(matches, q)[f]

\* C14's case: a record_match of [p1 win, p2 sub, p2 win] between p1's
\* global update and p1's sub-record update, with all of p2's still to come
C14_Witness ==
    /\ ~overlapped /\ budget.failures = 0
    /\ procs[1].op = "record" /\ procs[1].pc = "sub" /\ procs[1].i = 1
    /\ procs[1].x.player_results =
          <<[player_id |-> 1, result |-> "win"], [player_id |-> 2, result |-> "sub"],
            [player_id |-> 2, result |-> "win"]>>
    /\ matches[procs[1].id] = match_doc(procs[1].x)
    /\ teams[1].stats.matches_played = 1
    /\ players[1].wins = 1 /\ teams[1].players[1].stats.wins = 0
    /\ players[2].wins = 0 /\ teams[1].players[2].stats.wins = 0

\* One record_match created an entry, and the two handlers that came after
\* it, two delete_match or a delete_match and an update_match for that
\* entry's id, both fetched the entry and both completed
SameIdRace ==
    /\ Len(hist) = 3 /\ hist[1].op = "record"
    /\ \A i \in ProcIds :
          /\ procs[i].pc = "done" /\ procs[i].status = 200
          /\ procs[i].op \in {"delete", "update"}
          /\ procs[i].doc = match_doc(hist[1].x)
    /\ ObjectId(procs[1].id) = ObjectId(procs[2].id)
    /\ \E i \in ProcIds : procs[i].op = "delete"

\* what the update_match among the handlers ps, if any, accrues
Reaccrued(ps, Tally(_), zero) ==
    SumTally([i \in ProcIds |-> IF ps[i].op = "update" THEN Tally(ps[i].x) ELSE zero],
             Cardinality(ProcIds), zero)

\* C15: two delete_match calls, or a delete_match and an update_match, for
\* the same id that both fetched the entry both apply its negated deltas:
\* once both have completed the entry's effect has been taken twice from the
\* documents that had it once, so every counter it touched is below its
\* value before the record_match by the entry's delta (plus what the
\* update_match accrued for its new body)
C15_SameIdBothSubtract ==
    SameIdRace =>
        LET old == hist[1].x
        IN /\ \A t \in TeamIds :
                 LET T(x) == IF ObjectId(x.team_id) = t THEN TeamTally(x.player_results)
                             ELSE NoTally(ZeroTeamStats)
                 IN /\ teams[t].stats = Minus(Reaccrued(procs, T, ZeroTeamStats), T(old))
                    /\ \A j \in 1..Len(teams[t].players) :
                          LET S(x) == IF ObjectId(x.team_id) = t
                                      THEN SubRecordTally(x.player_results,
                                                          teams[t].players[j].player_id)
                                      ELSE ZeroStats
                          IN teams[t].players[j].stats
                                = Minus(Reaccrued(procs, S, ZeroStats), S(old))
           /\ \A q \in PlayerIds :
                 LET P(x) == PlayerTally(x.player_results, q)
                 IN players[q] = Minus(Reaccrued(procs, P, ZeroStats), P(old))

\* C15's case: two delete_match calls for the entry of a match team 1 won
\* with player 1 interleaved, and the team and the player are one win below
\* zero
C15_Witness ==
    /\ SameIdRace /\ overlapped
    /\ procs[1].op = "delete" /\ procs[2].op = "delete"
    /\ hist[1].x.team_id = 1
    /\ hist[1].x.player_results = <<[player_id |-> 1, result |-> "win"]>>
    /\ Entries(matches) = {}
    /\ teams[1].stats.matches_played = -1 /\ teams[1].stats.points = -3
    /\ players[1].wins = -1
    /\ teams[1].players[1].stats.wins = -1

(***************************************************************************)
(* Rollback as a function of the stored entry.  Live data that differs     *)
(* from the database db while the ledger is the same: one more match won   *)
(* in every document (other matches were recorded), and the documents as   *)
(* add_team and add_player made them with the rosters in the opposite      *)
(* order.                                                                  *)
(***************************************************************************)
Raised(st) ==
    [f \in DOMAIN st |->
        st[f] + (IF f \in {"matches_played", "wins"} THEN 1 ELSE IF f = "points" THEN 3 ELSE 0)]

Shifted(db) ==
    [db EXCEPT !.players = [q \in PlayerIds |-> IF @[q] = NoDoc THEN NoDoc ELSE Raised(@[q])],
               !.teams = [t \in TeamIds |->
                   IF @[t] = NoDoc THEN NoDoc
                   ELSE [@[t] EXCEPT !.stats = Raised(@),
                                     !.players = [j \in 1..Len(@) |->
                                                     [@[j] EXCEPT !.stats = Raised(@)]]]]]

Fresh(db) ==
    [db EXCEPT !.players = InitDB.players,
               !.teams = [t \in TeamIds |->
                   [InitDB.teams[t] EXCEPT !.players = Reverse(@)]]]

LiveVariants(db) == {db, Shifted(db), Fresh(db)}

\* the stats of the sub-record stored under pid in team t, if there is one
SubRecordOf(T, t, pid) ==
    IF T[t] = NoDoc \/ FirstPos(T[t].players, pid) = 0 THEN ZeroStats
    ELSE T[t].players[FirstPos(T[t].players, pid)].stats

\* what changed between the databases a and b, key by key
Deltas(a, b) ==
    [teams |-> [t \in TeamIds |-> Minus(b.teams[t].stats, a.teams[t].stats)],
     players |-> [q \in PlayerIds |-> Minus(b.players[q], a.players[q])],
     subs |-> [t \in TeamIds |-> [pid \in PlayerIds |->
                  Minus(SubRecordOf(b.teams, t, pid), SubRecordOf(a.teams, t, pid))]]]

\* what delete_match(id) changes in the database db holding doc under id
RollbackDeltas(db, id, doc) ==
    LET a == [db EXCEPT !.matches[ObjectId(id)] = doc]
        r == Run(a, StartDelete(id))
    IN [status |-> r.p.status, entry |-> r.db.matches[ObjectId(id)], change |-> Deltas(a, r.db)]

StoredResults == {"win", "loss", "draw"}

\* C16: what delete_match changes is a function of the stored entry alone:
\* for every entry of the ledger, with any stored team result, it changes the
\* same keys by the same amounts whatever the live team, roster and player
\* data are, the team's change is the one of the stored result (not of a
\* result derived again from the player_results), and a delete_match that
\* ran changed what it changes on fresh documents
C16_RollbackFromStored ==
    /\ \A m \in Entries(matches) : \A tr \in StoredResults :
          LET doc == [matches[m] EXCEPT !.calculated_team_result = tr]
              here == RollbackDeltas(DB, m, doc)
              t == ObjectId(doc.team_id)
          IN /\ \A v \in LiveVariants(DB) : RollbackDeltas(v, m, doc) = here
             /\ here.status = 200 /\ here.entry = NoDoc
             /\ here.change.teams[t] =
                   [matches_played |-> -1, points |-> - StoredPoints(tr),
                    wins |-> - Is(tr = "win"), loss |-> - Is(tr = "loss"),
                    draws |-> - Is(tr = "draw")]
    /\ LastOk("delete") =>
          Deltas(last.pre, DB) = RollbackDeltas(Fresh(last.pre), last.id, OldEntry).change

\* C16's case: a delete_match of an entry with a player who played, whose
\* team's or players' documents other requests had changed since it was
\* recorded
C16_Witness ==
    /\ LastOk("delete") /\ last.base = NoDoc
    /\ NonSubPlayers(OldEntry.player_results) # {}
    /\ OldEntry.calculated_team_result = "win"
    /\ \E q \in NonSubPlayers(OldEntry.player_results) : players[q].matches_played > 0
    /\ teams[ObjectId(OldEntry.team_id)].stats.matches_played > 0

\* the handler ended because the store call named by exc raised
Failed(p) == p.pc = "done" /\ p.exc # "none"

\* the handler as it was at the await that raised
AtFailure(p) == IF Failed(p) THEN [p EXCEPT !.pc = p.exc] ELSE p

\* C17: when a store call of record_match, delete_match or update_match has
\* raised, the handler has ended with status 500 and the documents are the
\* ones of the await that raised: every write before it is in place, none
\* after it was made, nothing was undone; an update_match whose insert_one
\* raised leaves no entry under its id
C17_NoCompensation ==
    (budget.failures = 1 /\ Alone /\ ~overlapped /\ \E i \in ProcIds : Failed(procs[i])) =>
        /\ LedgerLessLags([i \in ProcIds |-> AtFailure(procs[i])])
        /\ \A i \in ProcIds : Failed(procs[i]) =>
              /\ procs[i].status = 500
              /\ procs[i].body = NoDoc
              /\ procs[i].exc = "upd_insert" => FindMatch(matches, ObjectId(procs[i].id)) = NoDoc

\* C17's case: an update_match of a match player 1 won whose insert_one
\* raised: the old entry's effect is rolled back, the entry is deleted and
\* nothing stands under its id
C17_Witness ==
    /\ budget.failures = 1 /\ Alone /\ ~overlapped
    /\ Failed(procs[1]) /\ procs[1].op = "update" /\ procs[1].exc = "upd_insert"
    /\ NonSubPlayers(procs[1].doc.player_results) = {1}
    /\ NonSubPlayers(procs[1].x.player_results) # {}
    /\ Entries(matches) = {}
    /\ players[1].matches_played = 0 /\ teams[1].stats.matches_played = 0

\* the team of the entry the last delete_match fetched had been deleted
TeamGone == LET t == ObjectId(OldEntry.team_id)
            IN t \in TeamIds /\ last.pre.teams[t] = NoDoc

\* C18: delete_team of an existing team removes that team's document and
\* nothing else (the ledger and every player document stay as they are), and
\* changes nothing when it fails; a later delete_match of an entry of the
\* deleted team removes the entry and takes the entry's deltas from the
\* global counters of its players, with no team document changed
C18_DeleteTeamFrame ==
    /\ last.op = "delete_team" =>
          /\ matches = last.pre.matches
          /\ players = last.pre.players
          /\ \A t \in TeamIds :
                teams[t] = IF last.status = 200 /\ t = ObjectId(last.id)
                           THEN NoDoc ELSE last.pre.teams[t]
          /\ last.status = 200 => last.pre.teams[ObjectId(last.id)] # NoDoc
    /\ (LastOk("delete") /\ TeamGone) =>
          /\ matches = [last.pre.matches EXCEPT ![ObjectId(last.id)] = NoDoc]
          /\ teams = last.pre.teams
          /\ \A q \in PlayerIds : last.pre.players[q] # NoDoc =>
                players[q] = Minus(last.pre.players[q], PlayerTally(OldEntry.player_results, q))

\* C18's case: a match player 2 won for team 2 was deleted after team 2 was:
\* the entry is gone and player 2 has the win taken back
C18_Witness ==
    /\ LastOk("delete") /\ TeamGone
    /\ OldEntry.team_id = 2
    /\ Cardinality({i \in Positions(OldEntry.player_results, "win") :
                       OldEntry.player_results[i].player_id = 2}) = 1
    /\ last.pre.players[2] # NoDoc
    /\ players[2].wins = last.pre.players[2].wins - 1
    /\ matches[ObjectId(last.id)] = NoDoc

\* C19: in every state, between the store calls of handlers in progress and
\* under every interleaving of them, every team document has
\* points = 3 * wins + draws
C19_PointsFormula ==
    \A t \in TeamIds : teams[t] # NoDoc =>
        teams[t].stats.points = 3 * teams[t].stats.wins + teams[t].stats.draws

\* C19's case: two handlers are in the middle of their store calls, after
\* store calls that overlapped, and team 1 has a win and a draw
C19_Witness ==
    /\ overlapped
    /\ \A i \in ProcIds : Running(procs[i]) /\ procs[i].pc \notin {"insert", "find"}
    /\ teams[1].stats.wins = 1 /\ teams[1].stats.draws = 1 /\ teams[1].stats.points = 4

====
